---- MODULE Spec2Model ----
(***************************************************************************)
(* MultiValSparseBin<VAL_T> (src/src/io/multi_val_sparse_bin.hpp): the     *)
(* sparse multi-value bin store of the tree learner.                       *)
(*                                                                         *)
(* Representation.  An object is a record with the fields of the class.    *)
(* row_ptr_ is a function on 0..k (the C++ indices).  data_ and every      *)
(* t_data_[k] are sequences: C++ data_[j] is data_[j + 1] here, and C++    *)
(* t_data_[tid - 1] is t_data_[tid] here.  data_cap and t_cap are the      *)
(* vectors' capacity().  estimate_element_per_row_ is a double: it is kept *)
(* as an exact fraction <<p, q>> (p / q), or NaN.                          *)
(***************************************************************************)
EXTENDS Integers, Sequences, FiniteSets, TLC

VARIABLES
  bin,          \* this
  full_bin,     \* the source object of CopySubset / CopySubFeature (or NoBin)
  num_threads,  \* omp_get_num_threads()
  phase,        \* position in the life cycle
  calls,        \* tid -> the PushOneRow call tid is inside of (or Idle)
  inputs,       \* idx -> the arguments PushOneRow got for row idx (or NoInput)
  pushed,       \* tid -> the row ids tid has pushed, in call order
  writes,       \* tid -> the locations tid wrote in the ingestion region
  merge,        \* the copies of the last MoveData (its offsets and counts)
  blocks,       \* the blocks of the last CopySubFeature loop
  divzero,      \* a division whose divisor is zero was executed
  args,         \* the arguments of the last copy call, and how it ended
  hist          \* the histogram buffers and the ConstructHistogram calls on them

vars == <<bin, full_bin, num_threads, phase, calls, inputs, pushed, writes,
          merge, blocks, divzero, args, hist>>

----------------------------------------------------------------------------
(* Bounds of the model. *)

\* rows of an instance that is loaded row by row
MaxRows == 3
\* worker threads of the OpenMP team
MaxThreads == 2

(* Program constants. *)

\* const int min_block_size = 1024;
min_block_size == 1024

\* 0.0 / 0: not a number
NaN == <<0, 0>>
\* no call, no arguments, no record yet
Idle == [idx |-> -1, i |-> 0]
NoInput == [values |-> <<>>, size |-> -1]
NoMerge == <<>>
NoBlocks == <<>>
NoHist == <<>>
NoArgs == <<>>

\* f, evaluated: a function / a sequence whose elements are computed once
Eval(f) == f @@ <<>>
Vec(f) == f \o <<>>

Min(a, b) == IF a < b THEN a ELSE b
Max(a, b) == IF a > b THEN a ELSE b

----------------------------------------------------------------------------
(* std::vector *)

\* v.resize(n, 0): truncate, or extend with zeros
Resize(v, n) == Vec([j \in 1..n |-> IF j <= Len(v) THEN v[j] ELSE 0])

\* capacity() after the vector grew to n elements: unchanged when n fits,
\* else what libstdc++ allocates (size + max(size, added))
GrowCap(cap, size, n) == IF n <= cap THEN cap ELSE Max(2 * size, n)

----------------------------------------------------------------------------
(* The constructor. *)

\* static_cast<data_size_t>(num_data_ * estimate_element_per_row_ * 1.5),
\* for a finite estimate p / q
EstimateNumData(num_data, est) == (num_data * est[1] * 3) \div (est[2] * 2)

\* the constructor's body, given the value of estimate_num_data
Construct(num_data, num_bin, estimate_element_per_row, nthreads, estimate_num_data) ==
  [num_data_ |-> num_data,
   num_bin_ |-> num_bin,
   estimate_element_per_row_ |-> estimate_element_per_row,
   row_ptr_ |-> [i \in 0..num_data |-> 0],
   data_ |-> <<>>,
   t_data_ |-> [k \in 1..(nthreads - 1) |-> <<>>],
   data_cap |-> estimate_num_data \div nthreads,
   t_cap |-> [k \in 1..(nthreads - 1) |-> estimate_num_data \div nthreads],
   t_spill |-> [k \in 1..(nthreads - 1) |-> <<>>]]

MultiValSparseBin(num_data, num_bin, estimate_element_per_row, nthreads) ==
  Construct(num_data, num_bin, estimate_element_per_row, nthreads,
            EstimateNumData(num_data, estimate_element_per_row))

----------------------------------------------------------------------------
(* PushOneRow(tid, idx, values, size) *)

\* the buffer PushOneRow(tid, ...) appends to: 0 is data_, k > 0 is t_data_[k - 1]
PushBufferAlwaysData(tid) == 0
PushBuffer(tid) == IF tid = 0 THEN 0 ELSE tid

\* row_ptr_[idx + 1] = size;
PushRowPtrSlot(idx) == idx + 1
PushSetRowPtr(b, idx, size) == [b EXCEPT !.row_ptr_[PushRowPtrSlot(idx)] = size]

\* buf.push_back(static_cast<VAL_T>(v)) on the buffer of tid
PushBack(b, tid, v) ==
  IF PushBuffer(tid) = 0
    THEN [b EXCEPT !.data_ = Append(@, v),
                   !.data_cap = GrowCap(@, Len(b.data_), Len(b.data_) + 1)]
    ELSE LET k == PushBuffer(tid)
         IN [b EXCEPT !.t_data_[k] = Append(@, v),
                      !.t_cap[k] = GrowCap(@, Len(b.t_data_[k]),
                                           Len(b.t_data_[k]) + 1)]

\* the locations the next push_back of tid writes: the new element, and the
\* vector's end (its size)
PushLocations(b, tid) ==
  IF PushBuffer(tid) = 0
    THEN { <<"data_", 0, Len(b.data_)>>, <<"data_.size", 0, 0>> }
    ELSE { <<"t_data_", PushBuffer(tid) - 1, Len(b.t_data_[PushBuffer(tid)])>>,
           <<"t_data_.size", PushBuffer(tid) - 1, 0>> }

----------------------------------------------------------------------------
(* MoveData<use_ext_size>(sizes) *)

\* <<f[lo], f[lo] + f[lo + 1], ..., f[lo] + ... + f[hi]>>, by halves
RECURSIVE Cumul(_, _, _)
Cumul(f, lo, hi) ==
  IF lo = hi
    THEN <<f[lo]>>
    ELSE LET mid == (lo + hi) \div 2
             L == Cumul(f, lo, mid)
             R == Cumul(f, mid + 1, hi)
             s == L[Len(L)]
         IN L \o [k \in 1..Len(R) |-> R[k] + s]

\* for (i = 0; i < num_data_; ++i) row_ptr_[i + 1] += row_ptr_[i];
RowPtrNoSum(row_ptr, num_data) == row_ptr
RowPtrPrefixSum(row_ptr, num_data) ==
  LET c == Cumul(row_ptr, 0, num_data)
  IN Eval([i \in DOMAIN row_ptr |-> IF i <= num_data THEN c[i + 1] ELSE row_ptr[i]])

\* how many elements the merge copies out of t_data_[tid]
CopyCount(b, use_ext_size, sizes, tid) ==
  IF use_ext_size THEN sizes[tid + 1] ELSE Len(b.t_data_[tid + 1])

\* offsets[tid]: where the merge puts t_data_[tid]
RECURSIVE Offsets(_, _, _, _)
Offsets(b, use_ext_size, sizes, tid) ==
  IF tid = 0
    THEN IF use_ext_size THEN sizes[0] ELSE Len(b.data_)
    ELSE Offsets(b, use_ext_size, sizes, tid - 1)
           + CopyCount(b, use_ext_size, sizes, tid - 1)

\* element k (from 1) of the memory at t_data_[tid].data(): the vector's
\* elements, then what was written past its end
BufferMemory(b, tid, k) ==
  IF k <= Len(b.t_data_[tid + 1])
    THEN b.t_data_[tid + 1][k]
    ELSE IF k - Len(b.t_data_[tid + 1]) <= Len(b.t_spill[tid + 1])
           THEN b.t_spill[tid + 1][k - Len(b.t_data_[tid + 1])]
           ELSE 0

MoveData(b, use_ext_size, sizes) ==
  LET rp == RowPtrPrefixSum(b.row_ptr_, b.num_data_)
      nt == Len(b.t_data_)
  IN IF nt = 0
       THEN [b EXCEPT !.row_ptr_ = rp]
       ELSE
         LET total == rp[b.num_data_]
             off == Eval([tid \in 0..(nt - 1) |-> Offsets(b, use_ext_size, sizes, tid)])
             cnt == Eval([tid \in 0..(nt - 1) |-> CopyCount(b, use_ext_size, sizes, tid)])
             resized == Resize(b.data_, total)
             \* the copy that writes data_[j - 1], if any (the last one wins)
             Writers(j) == {tid \in 0..(nt - 1) : off[tid] < j /\ j <= off[tid] + cnt[tid]}
             Last(S) == CHOOSE tid \in S : \A u \in S : u <= tid
         IN [b EXCEPT
               !.row_ptr_ = rp,
               !.data_ = Vec([j \in 1..total |->
                                IF Writers(j) = {}
                                  THEN resized[j]
                                  ELSE BufferMemory(b, Last(Writers(j)),
                                                    j - off[Last(Writers(j))])]),
               !.data_cap = GrowCap(@, Len(b.data_), total)]

RECURSIVE SumLen(_, _)
SumLen(t, k) == IF k = 0 THEN 0 ELSE SumLen(t, k - 1) + Len(t[k])

\* the locals of one MoveData call: offsets, the copied counts, data_'s new size
MergePlan(b, use_ext_size, sizes) ==
  LET nt == Len(b.t_data_)
  IN [ext |-> use_ext_size,
      first |-> IF use_ext_size THEN sizes[0] ELSE Len(b.data_),
      total |-> RowPtrPrefixSum(b.row_ptr_, b.num_data_)[b.num_data_],
      before |-> Len(b.data_) + SumLen(b.t_data_, nt),
      copies |-> [tid \in 0..(nt - 1) |->
                    [lo |-> Offsets(b, use_ext_size, sizes, tid),
                     cnt |-> CopyCount(b, use_ext_size, sizes, tid),
                     avail |-> Len(b.t_data_[tid + 1])]]]

----------------------------------------------------------------------------
(* FinishLoad() *)

\* static_cast<double>(row_ptr_[num_data_]) / num_data_
AverageOrNaN(total, num_data) ==
  IF num_data = 0 THEN NaN ELSE <<total, num_data>>

FinishLoadBin(b) ==
  LET m == MoveData(b, FALSE, <<>>)
  IN [m EXCEPT
        !.t_data_ = <<>>,
        !.t_cap = <<>>,
        !.t_spill = <<>>,
        !.data_cap = Len(m.data_),
        !.estimate_element_per_row_ =
            AverageOrNaN(m.row_ptr_[m.num_data_], m.num_data_)]

----------------------------------------------------------------------------
(* Loading: the callers of PushOneRow and FinishLoad. *)

\* what a caller passes as (values, size): values may be longer than size
RowInputs ==
  { [values |-> <<>>, size |-> 0],
    [values |-> <<1>>, size |-> 1],
    [values |-> <<3, 7, 2>>, size |-> 2] }

\* the constructor's arguments
LoadNumBin == 8
EstimateInputs == { <<1, 1>> }

\* no object
NoBin == Construct(0, 0, NaN, 1, 0)

NoHistory ==
  /\ full_bin = NoBin
  /\ merge = NoMerge
  /\ blocks = NoBlocks
  /\ divzero = FALSE
  /\ args = NoArgs
  /\ hist = NoHist

InitLoad ==
  /\ num_threads \in 1..MaxThreads
  /\ \E n \in 0..MaxRows, e \in EstimateInputs :
       /\ bin = MultiValSparseBin(n, LoadNumBin, e, num_threads)
       /\ inputs = [idx \in 0..(n - 1) |-> NoInput]
  /\ phase = "load"
  /\ calls = [tid \in 0..(num_threads - 1) |-> Idle]
  /\ pushed = [tid \in 0..(num_threads - 1) |-> <<>>]
  /\ writes = [tid \in 0..(num_threads - 1) |-> {}]
  /\ NoHistory

\* thread tid calls PushOneRow(tid, idx, in.values, in.size) and executes its
\* first statement; a row id is passed once
PushOneRowCall(tid, idx, in) ==
  /\ phase = "load"
  /\ calls[tid] = Idle
  /\ inputs[idx] = NoInput
  /\ bin' = PushSetRowPtr(bin, idx, in.size)
  /\ inputs' = [inputs EXCEPT ![idx] = in]
  /\ pushed' = [pushed EXCEPT ![tid] = Append(@, idx)]
  /\ writes' = [writes EXCEPT ![tid] = @ \cup {<<"row_ptr_", 0, PushRowPtrSlot(idx)>>}]
  /\ calls' = [calls EXCEPT ![tid] = IF in.size = 0 THEN Idle
                                       ELSE [idx |-> idx, i |-> 0]]
  /\ UNCHANGED <<full_bin, num_threads, phase, merge, blocks, divzero, args,
                 hist>>

\* one iteration of the push_back loop of the call tid is inside of; the call
\* returns after the last one
PushOneRowLoop(tid) ==
  /\ phase = "load"
  /\ calls[tid] # Idle
  /\ LET c == calls[tid]
         in == inputs[c.idx]
     IN /\ bin' = PushBack(bin, tid, in.values[c.i + 1])
        /\ writes' = [writes EXCEPT ![tid] = @ \cup PushLocations(bin, tid)]
        /\ calls' = [calls EXCEPT ![tid] = IF c.i + 1 = in.size THEN Idle
                                             ELSE [c EXCEPT !.i = c.i + 1]]
  /\ UNCHANGED <<full_bin, num_threads, phase, inputs, pushed, merge, blocks,
                 divzero, args, hist>>

\* FinishLoad(), called when no thread is inside PushOneRow
FinishLoad ==
  /\ phase = "load"
  /\ \A tid \in DOMAIN calls : calls[tid] = Idle
  /\ merge' = <<MergePlan(bin, FALSE, <<>>)>>
  /\ bin' = FinishLoadBin(bin)
  /\ divzero' = (divzero \/ bin.num_data_ = 0)
  /\ phase' = "finalized"
  /\ UNCHANGED <<full_bin, num_threads, calls, inputs, pushed, writes, blocks,
                 args, hist>>

NextLoad ==
  \/ \E tid \in DOMAIN calls, idx \in DOMAIN inputs, in \in RowInputs :
       PushOneRowCall(tid, idx, in)
  \/ \E tid \in DOMAIN calls : PushOneRowLoop(tid)
  \/ FinishLoad

SpecLoad == InitLoad /\ [][NextLoad]_vars

----------------------------------------------------------------------------
(* Loading: what the claims speak of. *)

\* every row id of [0, num_rows) was passed to PushOneRow (once: see PushOneRowCall)
AllIngested == \A idx \in DOMAIN inputs : inputs[idx] # NoInput

\* the values PushOneRow was given for row r: the first size of values
Given(r) == SubSeq(inputs[r].values, 1, inputs[r].size)

\* data_[row_ptr_[r] .. row_ptr_[r + 1])
RowSlice(b, r) == SubSeq(b.data_, b.row_ptr_[r] + 1, b.row_ptr_[r + 1])

RECURSIVE SumSizes(_)
SumSizes(n) == IF n = 0 THEN 0 ELSE SumSizes(n - 1) + inputs[n - 1].size

\* the row ids in the order the buffers hold them: worker 0's, then worker 1's, ...
RECURSIVE PushOrder(_)
PushOrder(n) == IF n = 0 THEN <<>> ELSE PushOrder(n - 1) \o pushed[n - 1]

HasValues(r) == inputs[r].size > 0
Increasing(s) == \A i \in 1..(Len(s) - 1) : s[i] < s[i + 1]
Loaded == phase = "finalized" /\ AllIngested

\* C1 as stated: for any assignment of rows to workers and any order of the
\* PushOneRow calls, after FinishLoad the slice of every row holds the values
\* that were passed for that row.
C1_AnyOrder ==
  Loaded => \A r \in DOMAIN inputs : RowSlice(bin, r) = Given(r)

\* C1 amended: the same, provided the rows that have values, read buffer by
\* buffer (worker 0's pushes in call order, then worker 1's, ...), come in
\* ascending row id.
C1_InOrder ==
  (Loaded /\ Increasing(SelectSeq(PushOrder(num_threads), HasValues)))
    => \A r \in DOMAIN inputs : RowSlice(bin, r) = Given(r)

C1_Witness ==
  /\ Loaded
  /\ Increasing(SelectSeq(PushOrder(num_threads), HasValues))
  /\ num_threads >= 2
  /\ \A tid \in DOMAIN pushed : \E k \in DOMAIN pushed[tid] : HasValues(pushed[tid][k])
  /\ bin.num_data_ >= 3
  /\ \A r \in DOMAIN inputs : RowSlice(bin, r) = Given(r)

\* C2: after every row was ingested once and FinishLoad ran, row_ptr_ is
\* non-decreasing, row_ptr_[0] = 0, and row_ptr_[num_rows] is the sum of the
\* size arguments, the sum of the buffer sizes before the merge, and the
\* length of data_ after it.
C2_RowPtr ==
  Loaded =>
    /\ bin.row_ptr_[0] = 0
    /\ \A i \in 0..(bin.num_data_ - 1) : bin.row_ptr_[i] <= bin.row_ptr_[i + 1]
    /\ bin.row_ptr_[bin.num_data_] = SumSizes(bin.num_data_)
    /\ bin.row_ptr_[bin.num_data_] = merge[1].before
    /\ bin.row_ptr_[bin.num_data_] = Len(bin.data_)

C2_Witness ==
  /\ Loaded
  /\ bin.num_data_ >= 2
  /\ num_threads >= 2
  /\ merge[1].copies[0].cnt >= 1
  /\ merge[1].first >= 1
  /\ bin.row_ptr_[bin.num_data_] >= 3
  /\ bin.row_ptr_[bin.num_data_] = Len(bin.data_)

\* C8 as stated: with num_rows = 0, construction and FinishLoad execute no
\* division by zero and leave row_ptr_ = [0], data_ empty and a finite
\* density hint.
C8_ZeroRows ==
  (phase = "finalized" /\ bin.num_data_ = 0) =>
    /\ ~divzero
    /\ bin.row_ptr_ = [i \in 0..0 |-> 0]
    /\ bin.data_ = <<>>
    /\ bin.estimate_element_per_row_ # NaN

----------------------------------------------------------------------------
(* ConstructHistogram *)

\* sizeof(VAL_T), for VAL_T = uint32_t
sizeof_VAL_T == 4

\* const data_size_t pf_offset = 32 / sizeof(VAL_T);
pf_offset == 32 \div sizeof_VAL_T

\* const data_size_t pf_end = end - pf_offset;
PfEndNoLookahead(end) == end
PfEnd(end) == end - pf_offset

\* ACC_GH(hist, i, g, h): hist[i << 1] += g; hist[(i << 1) + 1] += h;
ACC_GH_Assign(out, i, g, h) == [out EXCEPT ![2 * i] = g, ![2 * i + 1] = h]
ACC_GH(out, i, g, h) == [out EXCEPT ![2 * i] = @ + g, ![2 * i + 1] = @ + h]

\* data_indices[i]; a read outside the array finds whatever is there (here 0)
IndexAt(data_indices, i) ==
  IF i \in DOMAIN data_indices THEN data_indices[i] ELSE 0

\* for (auto j = j_start; j < j_end; ++j) { bin = data_[j]; ACC_GH(out, bin, g, h) }
RECURSIVE AccumulateRow(_, _, _, _, _, _)
AccumulateRow(b, j, j_end, g, h, out) ==
  IF j < j_end
    THEN AccumulateRow(b, j + 1, j_end, g, h, ACC_GH(out, b.data_[j + 1], g, h))
    ELSE out

\* one iteration of either loop: the row at position i
HistogramRow(b, use_indices, use_hessians, data_indices, i, gradients, hessians, out) ==
  LET idx == IF use_indices THEN IndexAt(data_indices, i) ELSE i
  IN AccumulateRow(b, b.row_ptr_[idx], b.row_ptr_[idx + 1], gradients[idx],
                   IF use_hessians THEN hessians[idx] ELSE 1, out)

\* the loops of ConstructHistogramInner from position i on; lookahead is TRUE
\* in the prefetching loop (i < pf_end) and FALSE in the plain one (i < end).
\* st is [out, reads]: the histogram and the positions of data_indices read.
RECURSIVE HistogramLoop(_, _, _, _, _, _, _, _, _, _, _)
HistogramLoop(b, use_indices, use_hessians, lookahead, data_indices, i, end, pf_end, gradients, hessians, st) ==
  IF lookahead /\ i < pf_end
    THEN HistogramLoop(b, use_indices, use_hessians, TRUE, data_indices, i + 1,
           end, pf_end, gradients, hessians,
           [out |-> HistogramRow(b, use_indices, use_hessians, data_indices, i,
                                 gradients, hessians, st.out),
            reads |-> IF use_indices THEN st.reads \cup {i, i + pf_offset}
                      ELSE st.reads])
  ELSE IF lookahead
    THEN HistogramLoop(b, use_indices, use_hessians, FALSE, data_indices, i,
           end, pf_end, gradients, hessians, st)
  ELSE IF i < end
    THEN HistogramLoop(b, use_indices, use_hessians, FALSE, data_indices, i + 1,
           end, pf_end, gradients, hessians,
           [out |-> HistogramRow(b, use_indices, use_hessians, data_indices, i,
                                 gradients, hessians, st.out),
            reads |-> IF use_indices THEN st.reads \cup {i} ELSE st.reads])
  ELSE st

ConstructHistogramInner(b, use_indices, use_prefetch, use_hessians, data_indices, start, end, gradients, hessians, out) ==
  HistogramLoop(b, use_indices, use_hessians, use_prefetch, data_indices, start,
                end, PfEnd(end), gradients, hessians, [out |-> out, reads |-> {}])

\* the four overloads of ConstructHistogram
ConstructHistogramIndexed(b, data_indices, start, end, gradients, hessians, out) ==
  ConstructHistogramInner(b, TRUE, TRUE, TRUE, data_indices, start, end,
                          gradients, hessians, out)
ConstructHistogramRange(b, start, end, gradients, hessians, out) ==
  ConstructHistogramInner(b, FALSE, FALSE, TRUE, <<>>, start, end,
                          gradients, hessians, out)
ConstructHistogramIndexedNoHessian(b, data_indices, start, end, gradients, out) ==
  ConstructHistogramInner(b, TRUE, TRUE, FALSE, data_indices, start, end,
                          gradients, <<>>, out)
ConstructHistogramRangeNoHessian(b, start, end, gradients, out) ==
  ConstructHistogramInner(b, FALSE, FALSE, FALSE, <<>>, start, end,
                          gradients, <<>>, out)

----------------------------------------------------------------------------
(* Finalized instances to read from. *)

\* the values of rows lo..hi, one row after the other, by halves
RECURSIVE Flatten(_, _, _)
Flatten(rows, lo, hi) ==
  IF lo > hi THEN <<>>
  ELSE IF lo = hi THEN rows[lo]
  ELSE LET mid == (lo + hi) \div 2
       IN Flatten(rows, lo, mid) \o Flatten(rows, mid + 1, hi)

\* the instance after one thread pushed rows[0], ..., rows[n - 1] in this order
\* and FinishLoad ran
FinalizedBin(n, num_bin, rows) ==
  LET rp == RowPtrPrefixSum(Eval([i \in 0..n |-> IF i = 0 THEN 0 ELSE Len(rows[i - 1])]), n)
      data == Flatten(rows, 0, n - 1)
  IN [num_data_ |-> n,
      num_bin_ |-> num_bin,
      estimate_element_per_row_ |-> AverageOrNaN(rp[n], n),
      row_ptr_ |-> rp,
      data_ |-> data,
      t_data_ |-> <<>>,
      data_cap |-> Len(data),
      t_cap |-> <<>>,
      t_spill |-> <<>>]

\* the rows of the worked example (bins [3, 7], [], [1]), repeated
ExampleRows(n) ==
  [r \in 0..(n - 1) |-> IF r % 3 = 0 THEN <<3, 7>> ELSE IF r % 3 = 1 THEN <<>> ELSE <<1>>]
\* one value per row, a bin that depends on the row
DiagonalRows(n) == [r \in 0..(n - 1) |-> <<(5 * r) % LoadNumBin>>]
\* two values in every row of the first half, none in the second
SkewedRows(n) == [r \in 0..(n - 1) |-> IF 2 * r < n THEN <<2, 5>> ELSE <<>>]

----------------------------------------------------------------------------
(* Histogram construction: the callers of ConstructHistogram. *)

\* rows of the instance histograms are built from
HistRows == 10

HistRowFamilies(n) == {ExampleRows(n), DiagonalRows(n)}

\* the row lists of the indexed overloads: all rows, all rows backwards, the odd rows
IndexLists(n) ==
  { [i \in 0..(n - 1) |-> i],
    [i \in 0..(n - 1) |-> n - 1 - i],
    [i \in 0..((n \div 2) - 1) |-> 2 * i + 1] }

Gradients(n) == { [r \in 0..(n - 1) |-> r + 1], [r \in 0..(n - 1) |-> 3 - r] }
Hessians(n) == { [r \in 0..(n - 1) |-> 2 + (r % 2)] }

ZeroHistogram == [s \in 0..(2 * LoadNumBin - 1) |-> 0]
PriorHistograms == { ZeroHistogram, [s \in 0..(2 * LoadNumBin - 1) |-> s + 1] }

NoCall == [start |-> -1, end |-> -1, reads |-> {}]

\* hist: the caller's arrays, which overload it uses (indexed, hessians), and
\* three output buffers with their content before the call, their content
\* now, and the call made on each
InitHist ==
  /\ num_threads = 1
  /\ \E n \in {3, HistRows} :
       /\ \E rows \in HistRowFamilies(n) : bin = FinalizedBin(n, LoadNumBin, rows)
       /\ \E g \in Gradients(n), h \in Hessians(n), ix \in IndexLists(n),
             prior \in PriorHistograms, ui \in BOOLEAN, uh \in BOOLEAN :
            hist = [gradients |-> g, hessians |-> h, data_indices |-> ix,
                    indexed |-> ui, hessian |-> uh,
                    before |-> [k \in 1..3 |-> prior],
                    out |-> [k \in 1..3 |-> prior],
                    call |-> [k \in 1..3 |-> NoCall]]
  /\ phase = "finalized"
  /\ full_bin = NoBin
  /\ calls = <<>> /\ inputs = <<>> /\ pushed = <<>> /\ writes = <<>>
  /\ merge = NoMerge /\ blocks = NoBlocks /\ divzero = FALSE /\ args = NoArgs

\* how many positions [start, end) may range over
HistPositions ==
  IF hist.indexed
    THEN Cardinality(DOMAIN hist.data_indices)
    ELSE bin.num_data_

\* the caller's plan for its three buffers: buffer 1 gets any range, buffer 2
\* a range that starts where 1's ended, buffer 3 the union of the two
CallAllowed(k, start, end) ==
  /\ hist.call[k] = NoCall
  /\ 0 <= start /\ start <= end /\ end <= HistPositions
  /\ k > 1 => hist.call[k - 1] # NoCall
  /\ k = 2 => start = hist.call[1].end
  /\ k = 3 => start = hist.call[1].start /\ end = hist.call[2].end

Called(k, start, end, res) ==
  /\ hist' = [hist EXCEPT !.out[k] = res.out,
                          !.call[k] = [start |-> start, end |-> end,
                                       reads |-> res.reads]]
  /\ UNCHANGED <<bin, full_bin, num_threads, phase, calls, inputs, pushed,
                 writes, merge, blocks, divzero, args>>

CallIndexed(k, start, end) ==
  /\ phase = "finalized" /\ hist.indexed /\ hist.hessian
  /\ CallAllowed(k, start, end)
  /\ Called(k, start, end,
            ConstructHistogramIndexed(bin, hist.data_indices, start, end,
                                      hist.gradients, hist.hessians, hist.out[k]))

CallRange(k, start, end) ==
  /\ phase = "finalized" /\ ~hist.indexed /\ hist.hessian
  /\ CallAllowed(k, start, end)
  /\ Called(k, start, end,
            ConstructHistogramRange(bin, start, end, hist.gradients,
                                    hist.hessians, hist.out[k]))

CallIndexedNoHessian(k, start, end) ==
  /\ phase = "finalized" /\ hist.indexed /\ ~hist.hessian
  /\ CallAllowed(k, start, end)
  /\ Called(k, start, end,
            ConstructHistogramIndexedNoHessian(bin, hist.data_indices, start,
                                               end, hist.gradients, hist.out[k]))

CallRangeNoHessian(k, start, end) ==
  /\ phase = "finalized" /\ ~hist.indexed /\ ~hist.hessian
  /\ CallAllowed(k, start, end)
  /\ Called(k, start, end,
            ConstructHistogramRangeNoHessian(bin, start, end, hist.gradients,
                                             hist.out[k]))

NextHist ==
  \E k \in 1..3, start \in 0..(HistRows + 1), end \in 0..(HistRows + 1) :
    \/ CallIndexed(k, start, end)
    \/ CallRange(k, start, end)
    \/ CallIndexedNoHessian(k, start, end)
    \/ CallRangeNoHessian(k, start, end)

SpecHist == InitHist /\ [][NextHist]_vars

----------------------------------------------------------------------------
(* Histogram construction: what the claims speak of. *)

\* the active row of position i
ActiveRow(i) == IF hist.indexed THEN hist.data_indices[i] ELSE i

\* how many stored entries of row r equal bin
EntriesEqual(r, b) ==
  Cardinality({j \in (bin.row_ptr_[r] + 1)..bin.row_ptr_[r + 1] : bin.data_[j] = b})

\* what one entry of row r adds to slot s of the histogram
SlotTerm(r, s) ==
  IF s % 2 = 0 THEN hist.gradients[r]
  ELSE IF hist.hessian THEN hist.hessians[r] ELSE 1

\* the sum for slot s over the positions of [start, end)
RECURSIVE SlotSum(_, _, _)
SlotSum(start, end, s) ==
  IF start >= end THEN 0
  ELSE SlotSum(start, end - 1, s)
         + EntriesEqual(ActiveRow(end - 1), s \div 2) * SlotTerm(ActiveRow(end - 1), s)

\* C3: after a ConstructHistogram call over [start, end), every slot of out is
\* its prior content plus the gradient (even slots) or hessian / 1 (odd slots)
\* sums over the stored entries of the active rows, nothing else changes, and
\* every position of data_indices that was read lies in [start, end).
C3_Histogram ==
  \A k \in 1..3 :
    hist.call[k] # NoCall =>
      /\ DOMAIN hist.out[k] = DOMAIN hist.before[k]
      /\ \A s \in DOMAIN hist.out[k] :
           hist.out[k][s] = hist.before[k][s]
                              + SlotSum(hist.call[k].start, hist.call[k].end, s)
      /\ hist.call[k].reads \subseteq hist.call[k].start..(hist.call[k].end - 1)

C3_Witness ==
  /\ hist.call[1] # NoCall
  /\ hist.indexed /\ ~hist.hessian
  /\ hist.call[1].end - hist.call[1].start > pf_offset
  /\ hist.call[1].start > 0
  /\ hist.before[1] # ZeroHistogram
  /\ \E s \in DOMAIN hist.out[1] : hist.out[1][s] > hist.before[1][s] + 1
  /\ hist.call[1].end - 1 \in hist.call[1].reads

\* C4: ConstructHistogram over [start, mid) and over [mid, end) into two zeroed
\* buffers, added slot by slot, is ConstructHistogram over [start, end) into a
\* zeroed buffer, for the identity and the indexed selector.
C4_Additive ==
  (/\ \A k \in 1..3 : hist.call[k] # NoCall
   /\ \A k \in 1..3 : hist.before[k] = ZeroHistogram)
    => \A s \in DOMAIN ZeroHistogram :
         hist.out[1][s] + hist.out[2][s] = hist.out[3][s]

C4_Witness ==
  /\ \A k \in 1..3 : hist.call[k] # NoCall /\ hist.before[k] = ZeroHistogram
  /\ hist.indexed
  /\ hist.call[3].end - hist.call[3].start > pf_offset
  /\ hist.call[1].end > hist.call[1].start
  /\ hist.call[2].end > hist.call[2].start
  /\ hist.out[1] # ZeroHistogram /\ hist.out[2] # ZeroHistogram
  /\ \A s \in DOMAIN ZeroHistogram : hist.out[1][s] + hist.out[2][s] = hist.out[3][s]

----------------------------------------------------------------------------
(* ReSize(num_data) and CopySubset(full_bin, used_indices, num_used_indices) *)

ReSizeBin(b, num_data) ==
  IF b.num_data_ # num_data THEN [b EXCEPT !.num_data_ = num_data] ELSE b

\* row_ptr_.resize(n + 1, 0)
ResizeRowPtr(row_ptr, n) ==
  [i \in 0..n |-> IF i \in DOMAIN row_ptr THEN row_ptr[i] ELSE 0]

\* the source row copied into row i: used_indices[i]
SubsetSourceRowFirst(used_indices, i) == used_indices[1]
SubsetSourceRow(used_indices, i) == used_indices[i + 1]

\* the loop over i from i to num_used_indices - 1. The row_ptr_ of st is the
\* memory at row_ptr_.data(): it also holds what was written past the end.
RECURSIVE CopySubsetLoop(_, _, _, _, _)
CopySubsetLoop(st, other, used_indices, i, num_used_indices) ==
  IF i < num_used_indices
    THEN LET r == SubsetSourceRow(used_indices, i)
             j_start == other.row_ptr_[r]
             j_end == other.row_ptr_[r + 1]
         IN CopySubsetLoop(
              [st EXCEPT
                 !.data_ = @ \o SubSeq(other.data_, j_start + 1, j_end),
                 !.row_ptr_ = [k \in DOMAIN st.row_ptr_ \cup {i + 1} |->
                                 IF k = i + 1
                                   THEN st.row_ptr_[i] + j_end - j_start
                                   ELSE st.row_ptr_[k]]],
              other, used_indices, i + 1, num_used_indices)
    ELSE st

\* CopySubset, when every write of row_ptr_[i + 1] is inside row_ptr_, or lands
\* in memory past its end without harm
CopySubsetBin(b, other, used_indices, num_used_indices) ==
  LET cleared == [b EXCEPT
                    !.row_ptr_ = ResizeRowPtr(b.row_ptr_, b.num_data_),
                    !.data_ = <<>>,
                    !.data_cap = Max(@, EstimateNumData(b.num_data_,
                                                        b.estimate_element_per_row_))]
      st == CopySubsetLoop(cleared, other, used_indices, 0, num_used_indices)
  IN [st EXCEPT
        !.row_ptr_ = [k \in 0..b.num_data_ |-> st.row_ptr_[k]],
        !.data_cap = GrowCap(cleared.data_cap, 0, Len(st.data_))]

\* the loop writes row_ptr_[1 .. num_used_indices]; row_ptr_ ends at num_data_
SubsetWritesInside(b, num_used_indices) == num_used_indices <= b.num_data_

----------------------------------------------------------------------------
(* Row subsets: the callers of ReSize and CopySubset. *)

\* entries of a used_indices list
MaxUsed == 2

\* the used_indices lists of up to len valid row ids of a source of n rows
RECURSIVE RowLists(_, _)
RowLists(n, len) ==
  IF len = 0 THEN {<<>>}
  ELSE LET shorter == RowLists(n, len - 1)
       IN shorter \cup {Append(l, r) : l \in {x \in shorter : Len(x) = len - 1},
                                        r \in 0..(n - 1)}

\* a finalized source, and a destination as constructed; the destination is
\* then filled ("subset" -> "copied") and may be filled once more ("recopied")
InitSubset ==
  /\ num_threads = 1
  /\ \E n \in 1..MaxRows : full_bin = FinalizedBin(n, LoadNumBin, ExampleRows(n))
  /\ \E nd \in 0..MaxRows, e \in EstimateInputs :
       bin = MultiValSparseBin(nd, LoadNumBin, e, num_threads)
  /\ phase = "subset"
  /\ args = <<[op |-> "new", used_indices |-> <<>>, num_data |-> bin.num_data_]>>
  /\ calls = <<>> /\ inputs = <<>> /\ pushed = <<>> /\ writes = <<>>
  /\ merge = NoMerge /\ blocks = NoBlocks /\ divzero = FALSE /\ hist = NoHist

ReSize(num_data) ==
  /\ phase \in {"subset", "copied"}
  /\ bin' = ReSizeBin(bin, num_data)
  /\ args' = <<[op |-> "ReSize", used_indices |-> <<>>, num_data |-> bin.num_data_]>>
  /\ UNCHANGED <<full_bin, num_threads, phase, calls, inputs, pushed, writes,
                 merge, blocks, divzero, hist>>

\* CopySubset(full_bin, used_indices, Len(used_indices)). A write past the end
\* of row_ptr_ is undefined behaviour: the call crashes, or goes on
CopySubset(used_indices) ==
  /\ phase \in {"subset", "copied"}
  /\ args' = <<[op |-> "CopySubset", used_indices |-> used_indices,
                num_data |-> bin.num_data_]>>
  /\ \E outcome \in IF SubsetWritesInside(bin, Len(used_indices))
                      THEN {"returns"} ELSE {"returns", "crashes"} :
       IF outcome = "returns"
         THEN /\ bin' = CopySubsetBin(bin, full_bin, used_indices, Len(used_indices))
              /\ phase' = IF phase = "subset" THEN "copied" ELSE "recopied"
         ELSE /\ bin' = bin
              /\ phase' = "crashed"
  /\ UNCHANGED <<full_bin, num_threads, calls, inputs, pushed, writes, merge,
                 blocks, divzero, hist>>

NextSubset ==
  \/ \E num_data \in 0..MaxRows : ReSize(num_data)
  \/ \E used_indices \in RowLists(full_bin.num_data_, MaxUsed) : CopySubset(used_indices)

SpecSubset == InitSubset /\ [][NextSubset]_vars

\* the call that was made last is CopySubset
AfterCopySubset == args[1].op = "CopySubset"

\* what C5 says of the destination after CopySubset(source, used_indices, count)
SubsetCopied ==
  LET used == args[1].used_indices
      count == Len(used)
  IN /\ phase # "crashed"
     /\ bin.num_data_ = count
     /\ DOMAIN bin.row_ptr_ = 0..count
     /\ bin.row_ptr_[0] = 0
     /\ bin.row_ptr_[count] = Len(bin.data_)
     /\ \A i \in 0..(count - 1) : RowSlice(bin, i) = RowSlice(full_bin, used[i + 1])
     /\ used = [i \in 1..full_bin.num_data_ |-> i - 1]
          => bin.row_ptr_ = full_bin.row_ptr_ /\ bin.data_ = full_bin.data_

\* C5 as stated: after CopySubset(source, used_indices, count), for every list
\* of valid source rows, the destination has exactly count rows, row i holds
\* the values of source row used_indices[i], and the identity list reproduces
\* the source's row_ptr_ and data_.
C5_AnyDestination == AfterCopySubset => SubsetCopied

\* C5 amended: the same, provided the destination's num_data_ is count when
\* CopySubset is called (the caller made it so, with the constructor or with
\* ReSize(count)).
C5_SizedDestination ==
  (AfterCopySubset /\ args[1].num_data = Len(args[1].used_indices)) => SubsetCopied

C5_Witness ==
  /\ AfterCopySubset
  /\ args[1].num_data = Len(args[1].used_indices)
  /\ phase = "recopied"
  /\ Len(args[1].used_indices) = 2
  /\ args[1].used_indices[1] > args[1].used_indices[2]
  /\ Len(bin.data_) >= 3
  /\ SubsetCopied

----------------------------------------------------------------------------
(* CreateLike(num_bin, num_features, fraction) and ReSizeForSubFeature(num_bin) *)

\* estimate_element_per_row_ * fraction
Scaled(est, fraction) ==
  IF est = NaN THEN NaN ELSE <<est[1] * fraction[1], est[2] * fraction[2]>>

ReSizeForSubFeatureBin(b, num_bin) ==
  IF b.data_ = <<>>
    THEN [b EXCEPT !.num_bin_ = num_bin,
                   !.data_ = Resize(b.data_, b.data_cap),
                   !.t_data_ = Vec([k \in DOMAIN b.t_data_ |->
                                      Resize(b.t_data_[k], b.t_cap[k])])]
    ELSE [b EXCEPT !.num_bin_ = num_bin]

\* CreateLike, given the value the constructor's cast to data_size_t yields
CreateLikeBin(b, num_bin, fraction, nthreads, estimate_num_data) ==
  ReSizeForSubFeatureBin(
    Construct(b.num_data_, num_bin, Scaled(b.estimate_element_per_row_, fraction),
              nthreads, estimate_num_data),
    num_bin)

----------------------------------------------------------------------------
(* CopySubFeature(full_bin, used_feature_index, lower, upper, delta) *)

\* const int n_block = std::min(num_threads, num_data_ / min_block_size);
NBlock(b, nthreads) == Min(nthreads, b.num_data_ \div min_block_size)

\* const data_size_t block_size = (num_data_ + n_block - 1) / n_block;
\* with n_block = 0 the division is undefined; the loop then runs no block
BlockSize(b, n_block) ==
  IF n_block = 0 THEN 0 ELSE (b.num_data_ + n_block - 1) \div n_block

\* while (val >= upper[k]) ++k;   (k stops at Len(upper): past the last range)
RECURSIVE Cursor(_, _, _)
Cursor(val, k, upper) ==
  IF k < Len(upper) /\ val >= upper[k + 1] THEN Cursor(val, k + 1, upper) ELSE k

\* the inner loop over the values vals[j..] of one row, the cursor at k:
\* emit is what is written to buf, k the cursor at the end
RECURSIVE FilterRow(_, _, _, _, _, _)
FilterRow(vals, j, k, lower, upper, delta) ==
  IF j > Len(vals) THEN [emit |-> <<>>, k |-> k]
  ELSE LET val == vals[j]
           k2 == Cursor(val, k, upper)
       IN IF k2 >= Len(upper) THEN [emit |-> <<>>, k |-> k2]
          ELSE LET rest == FilterRow(vals, j + 1, k2, lower, upper, delta)
               IN [emit |-> (IF val >= lower[k2 + 1]
                               THEN <<val - delta[k2 + 1]>> ELSE <<>>) \o rest.emit,
                   k |-> rest.k]

\* the rows block tid loops over: [start, end)
BlockStart(tid, block_size) == tid * block_size
BlockEnd(b, tid, block_size) == Min(b.num_data_, BlockStart(tid, block_size) + block_size)

\* auto& buf = (tid == 0) ? data_ : t_data_[tid - 1];   (0 is data_)
BlockBufferShared(tid) == 0
BlockBuffer(tid) == tid
BufferOf(b, tid) == IF BlockBuffer(tid) = 0 THEN b.data_ ELSE b.t_data_[BlockBuffer(tid)]

\* buf after w was written to buf[0 .. Len(w)): the part that fits
Overlay(buf, w) == Vec([j \in 1..Len(buf) |-> IF j <= Len(w) THEN w[j] ELSE buf[j]])
\* the part written past the end of buf
Spill(buf, w) == SubSeq(w, Len(buf) + 1, Len(w))

\* what the inner loop writes for each row i
Emitted(b, other, lower, upper, delta) ==
  Eval([i \in 0..(b.num_data_ - 1) |->
          FilterRow(SubSeq(other.data_, other.row_ptr_[i] + 1, other.row_ptr_[i + 1]),
                    1, 0, lower, upper, delta)])

\* what block tid writes to its buffer, in order, for each block
BlockWrites(b, emitted, n_block, block_size) ==
  Eval([tid \in 0..(n_block - 1) |->
          Flatten([i \in DOMAIN emitted |-> emitted[i].emit],
                  BlockStart(tid, block_size), BlockEnd(b, tid, block_size) - 1)])

\* sizes[], as the block loop leaves it: sizes[tid] = bid
BlockSizes(b, w, n_block) ==
  Eval([tid \in 0..Len(b.t_data_) |-> IF tid < n_block THEN Len(w[tid]) ELSE 0])

\* the object after the block loop
BlockLoop(b, emitted, w, n_block, block_size) ==
  LET covered == IF n_block = 0 THEN 0 ELSE BlockEnd(b, n_block - 1, block_size)
  IN [b EXCEPT
        !.row_ptr_ = Eval([i \in DOMAIN b.row_ptr_ |->
                             IF 1 <= i /\ i <= covered THEN Len(emitted[i - 1].emit)
                             ELSE b.row_ptr_[i]]),
        !.data_ = IF n_block >= 1 THEN Overlay(b.data_, w[0]) ELSE b.data_,
        !.t_data_ = Vec([k \in DOMAIN b.t_data_ |->
                           IF k < n_block THEN Overlay(b.t_data_[k], w[k])
                           ELSE b.t_data_[k]]),
        !.t_spill = Vec([k \in DOMAIN b.t_data_ |->
                           IF k < n_block THEN Spill(b.t_data_[k], w[k]) ELSE <<>>])]

\* the locals of the block loop: per block its rows, its buffer and that
\* buffer's size, its slot of sizes[], and how many elements it wrote
BlockPlan(b, sizes, n_block, block_size) ==
  [n_block |-> n_block,
   block_size |-> block_size,
   block |-> [tid \in 0..(n_block - 1) |->
                [start |-> BlockStart(tid, block_size),
                 end |-> BlockEnd(b, tid, block_size),
                 buffer |-> BlockBuffer(tid),
                 exists |-> BlockBuffer(tid) <= Len(b.t_data_),
                 bufsize |-> IF BlockBuffer(tid) <= Len(b.t_data_)
                               THEN Len(BufferOf(b, tid)) ELSE 0,
                 slot |-> tid,
                 written |-> sizes[tid]]]]

\* CopySubFeature, when it returns
CopySubFeatureBin(b, other, nthreads, lower, upper, delta) ==
  LET n_block == NBlock(b, nthreads)
      block_size == BlockSize(b, n_block)
      emitted == Emitted(b, other, lower, upper, delta)
      w == BlockWrites(b, emitted, n_block, block_size)
  IN MoveData(BlockLoop(b, emitted, w, n_block, block_size), TRUE,
              BlockSizes(b, w, n_block))

----------------------------------------------------------------------------
(* Sub-feature copies: the callers of CreateLike, ReSizeForSubFeature and
   CopySubFeature. *)

\* blocks of min_block_size rows of the largest source
MaxBlocks == 2

SubFeatureRowCounts ==
  {0, MaxRows} \cup {k * min_block_size : k \in 1..MaxBlocks}

\* (lower, upper, delta) of the kept ranges; every stored value is below the
\* last upper bound
Filters ==
  { [lower |-> <<0>>, upper |-> <<LoadNumBin>>, delta |-> <<0>>],
    [lower |-> <<0, LoadNumBin>>, upper |-> <<4, LoadNumBin>>, delta |-> <<0, 0>>],
    [lower |-> <<4>>, upper |-> <<LoadNumBin>>, delta |-> <<4>>],
    [lower |-> <<0, 5>>, upper |-> <<4, LoadNumBin>>, delta |-> <<0, 1>>] }

\* the bin count of a narrowed destination
SubNumBin == 4

FullRange(b) == [lower |-> <<0>>, upper |-> <<b.num_bin_>>, delta |-> <<0>>]

Fractions == { <<1, 1>>, <<1, 2>> }

\* a finalized source; the destination does not exist yet
InitSubFeature ==
  /\ num_threads \in 1..MaxThreads
  /\ \E n \in SubFeatureRowCounts : \E rows \in {ExampleRows(n), SkewedRows(n)} :
       /\ full_bin = FinalizedBin(n, LoadNumBin, rows)
       /\ divzero = (n = 0)
  /\ bin = NoBin
  /\ phase = "source"
  /\ args = NoArgs
  /\ calls = <<>> /\ inputs = <<>> /\ pushed = <<>> /\ writes = <<>>
  /\ merge = NoMerge /\ blocks = NoBlocks /\ hist = NoHist

\* bin = full_bin->CreateLike(num_bin, num_features, fraction). With a NaN
\* estimate the constructor's cast to data_size_t is undefined: it yields 0, or
\* INT_MIN, and reserve() of a negative size throws
CreateLike(num_bin, fraction) ==
  /\ phase = "source"
  /\ \E outcome \in IF full_bin.estimate_element_per_row_ = NaN
                      THEN {"returns", "crashes"} ELSE {"returns"} :
       IF outcome = "returns"
         THEN /\ bin' = CreateLikeBin(full_bin, num_bin, fraction, num_threads,
                          IF full_bin.estimate_element_per_row_ = NaN THEN 0
                          ELSE EstimateNumData(full_bin.num_data_,
                                 Scaled(full_bin.estimate_element_per_row_, fraction)))
              /\ phase' = "created"
         ELSE /\ bin' = bin
              /\ phase' = "crashed"
  /\ args' = <<[op |-> "CreateLike", filter |-> FullRange(full_bin),
                fraction |-> fraction, first |-> TRUE]>>
  /\ UNCHANGED <<full_bin, num_threads, calls, inputs, pushed, writes, merge,
                 blocks, divzero, hist>>

ReSizeForSubFeature(num_bin) ==
  /\ phase = "filled"
  /\ bin' = ReSizeForSubFeatureBin(bin, num_bin)
  /\ phase' = "resized"
  /\ args' = <<[args[1] EXCEPT !.op = "ReSizeForSubFeature"]>>
  /\ UNCHANGED <<full_bin, num_threads, calls, inputs, pushed, writes, merge,
                 blocks, divzero, hist>>

\* bin->CopySubFeature(full_bin, ..., f.lower, f.upper, f.delta). A division by
\* n_block = 0 and a write past the end of a buffer are undefined behaviour:
\* the call crashes, or goes on
CopySubFeature(f) ==
  /\ phase \in {"created", "resized"}
  /\ LET n_block == NBlock(bin, num_threads)
         block_size == BlockSize(bin, n_block)
         emitted == Emitted(bin, full_bin, f.lower, f.upper, f.delta)
         w == BlockWrites(bin, emitted, n_block, block_size)
         sizes == BlockSizes(bin, w, n_block)
         plan == BlockPlan(bin, sizes, n_block, block_size)
         looped == BlockLoop(bin, emitted, w, n_block, block_size)
         undefined == \/ n_block = 0
                      \/ \E tid \in DOMAIN plan.block :
                           plan.block[tid].written > plan.block[tid].bufsize
     IN /\ blocks' = <<plan>>
        /\ divzero' = (divzero \/ n_block = 0)
        /\ \E outcome \in IF undefined THEN {"returns", "crashes"} ELSE {"returns"} :
             IF outcome = "returns"
               THEN /\ bin' = MoveData(looped, TRUE, sizes)
                    /\ merge' = <<MergePlan(looped, TRUE, sizes)>>
                    /\ phase' = IF phase = "created" THEN "filled" ELSE "refilled"
               ELSE /\ bin' = bin
                    /\ merge' = merge
                    /\ phase' = "crashed"
  /\ args' = <<[args[1] EXCEPT !.op = "CopySubFeature", !.filter = f,
                               !.first = (phase = "created")]>>
  /\ UNCHANGED <<full_bin, num_threads, calls, inputs, pushed, writes, hist>>

NextSubFeature ==
  \/ \E fraction \in Fractions : CreateLike(LoadNumBin, fraction)
  \/ ReSizeForSubFeature(SubNumBin)
  \/ \E f \in Filters : CopySubFeature(f)

SpecSubFeature == InitSubFeature /\ [][NextSubFeature]_vars

----------------------------------------------------------------------------
(* Sub-feature copies: what the claims speak of. *)

AfterCopySubFeature == args # NoArgs /\ args[1].op = "CopySubFeature"

\* the destination describes whole rows: row_ptr_ starts at 0, does not
\* decrease, and ends inside data_
WholeRows(b) ==
  /\ b.row_ptr_[0] = 0
  /\ \A i \in 0..(b.num_data_ - 1) : b.row_ptr_[i] <= b.row_ptr_[i + 1]
  /\ b.row_ptr_[b.num_data_] <= Len(b.data_)

\* C6 as stated: CopySubFeature with the single full-range filter, into a
\* destination made by CreateLike, returns and leaves the destination's
\* row_ptr_ equal to the source's and its data_ equal to the source's (so of
\* length row_ptr_[num_rows]), for every row count and every worker count.
C6_FullRangeIdentity ==
  (AfterCopySubFeature /\ args[1].first /\ args[1].filter = FullRange(full_bin)) =>
    /\ phase = "filled"
    /\ bin.row_ptr_ = full_bin.row_ptr_
    /\ Len(bin.data_) = bin.row_ptr_[bin.num_data_]
    /\ bin.data_ = full_bin.data_

\* the range a value falls in: the first k (from 0) with val < upper[k]
RangeOf(val, upper) == Cursor(val, 0, upper)

\* the values of one source row that survive the filter f, shifted
RECURSIVE Survivors(_, _)
Survivors(vals, f) ==
  IF vals = <<>> THEN <<>>
  ELSE LET v == Head(vals)
           k == RangeOf(v, f.upper) + 1
       IN (IF f.lower[k] <= v /\ v < f.upper[k] THEN <<v - f.delta[k]>> ELSE <<>>)
            \o Survivors(Tail(vals), f)

\* C7 as stated: after CopySubFeature with ordered ranges, on a source whose
\* rows hold their values in increasing-range order below the last upper
\* bound, the call returns and every destination row r holds, in source
\* order, v - delta[k] for the source values v of row r with
\* lower[k] <= v < upper[k], k the first range with v < upper[k]; the row's
\* length in row_ptr_ is the number of survivors, whatever the worker count.
C7_FilterShift ==
  AfterCopySubFeature =>
    /\ phase \in {"filled", "refilled"}
    /\ WholeRows(bin)
    /\ \A r \in 0..(full_bin.num_data_ - 1) :
         RowSlice(bin, r) = Survivors(RowSlice(full_bin, r), args[1].filter)

\* C10 as stated: in every CopySubFeature call on a destination made by
\* CreateLike, the first and any later one after ReSizeForSubFeature, every
\* block's buffer exists, every block writes only below the size of its
\* buffer, and every merge copy reads at most the size of the buffer it
\* copies from.
C10_WritesInside ==
  (AfterCopySubFeature /\ blocks # NoBlocks) =>
    /\ \A tid \in DOMAIN blocks[1].block :
         /\ blocks[1].block[tid].exists
         /\ blocks[1].block[tid].written <= blocks[1].block[tid].bufsize
    /\ merge # NoMerge =>
         \A tid \in DOMAIN merge[1].copies :
           merge[1].copies[tid].cnt <= merge[1].copies[tid].avail

----------------------------------------------------------------------------
(* The parallel regions: ingestion, the merge, the block loop. *)

InitPar == InitLoad \/ InitSubFeature

NextPar == NextLoad \/ NextSubFeature

SpecPar == InitPar /\ [][NextPar]_vars

\* [lo, lo + cnt) of two merge copies have no element in common
CopiesDisjoint(c, d) == c.lo + c.cnt <= d.lo \/ d.lo + d.cnt <= c.lo

\* (a) no location is written by two workers of the ingestion region
IngestionDisjoint ==
  \A t \in DOMAIN writes, u \in DOMAIN writes :
    t # u => writes[t] \cap writes[u] = {}

\* (b) the destination ranges of the merge, in either mode
MergeDisjoint ==
  merge # NoMerge =>
    LET m == merge[1]
    IN /\ \A t \in DOMAIN m.copies, u \in DOMAIN m.copies :
            t # u => CopiesDisjoint(m.copies[t], m.copies[u])
       /\ \A t \in DOMAIN m.copies :
            /\ m.first <= m.copies[t].lo
            /\ m.copies[t].lo + m.copies[t].cnt <= m.total

\* (c) the rows, the sizes[] slots and the buffers of the block loop
BlocksDisjoint ==
  blocks # NoBlocks =>
    LET bl == blocks[1].block
    IN \A t \in DOMAIN bl, u \in DOMAIN bl :
         t # u =>
           /\ bl[t].end <= bl[u].start \/ bl[u].end <= bl[t].start
           /\ bl[t].slot # bl[u].slot
           /\ bl[t].buffer # bl[u].buffer

====
